---- MODULE Spec2Model ----
(***************************************************************************)
(* A model of aax-mp3.py: the conversion pipeline `convert` (probe,        *)
(* transcode, chapter probe, one split per chapter) and the process runner *)
(* `Ffmpeg.run_program` with its two stream-draining loops.                *)
(*                                                                         *)
(* Text is a sequence of one-character strings.  Seconds are integers.     *)
(* Two layers:                                                             *)
(*   Spec     the pipeline; every run_program call is a child that is      *)
(*            launched, runs to its exit, and whose result is then handed  *)
(*            to the code after the await;                                 *)
(*   SpecRun  one run_program call in detail: the child's writes, the two  *)
(*            bounded pipes, the two pump_bytes loops, process.wait().     *)
(***************************************************************************)
EXTENDS Integers, Sequences, FiniteSets, TLC

VARIABLES
    \* ---- the pipeline (convert) ----
    options,    \* Options: [title, out_path]
    pc,         \* where convert is: start, meta, transcode, chapters, split, done, failed
    calls,      \* every run_program call made so far, in order, with its result
    meta,       \* the value get_metainfo returned
    chapters,   \* the value get_chapters returned
    i,          \* the loop variable of `for i, ch in enumerate(chapters, start=1)`
    error,      \* the exception that ended convert, or "none"
    dirExists,  \* whether the output directory exists
    tempFile,   \* the intermediate file test.mp3: absent, empty, data
    outFiles,   \* the chapter files written into the output directory
    \* ---- one run_program call in detail ----
    rpc,        \* where run_program is: idle, gather, wait, returned
    childOp,    \* the operation the child is about to do (or is blocked in)
    open,       \* per stream: the child still holds the write end open
    written,    \* per stream: the bytes the child has written
    nWrites,    \* how many writes the child has done
    exitCode,   \* the child's exit code, or NoExit while it runs
    pipe,       \* per stream: bytes written and not yet read
    pumpPc,     \* per stream: the pump_bytes loop: reading, done
    captured,   \* per stream: the `results` list of the pump (outputs, errors)
    retval,     \* what run_program returned
    \* ---- one use of safe_name, and a second on its result ----
    snPc,       \* none, once (safe_name applied), twice (applied to its result)
    snName,     \* the raw name
    snFallback, \* the fallback
    snOnce,     \* safe_name(snName, snFallback)
    snTwice     \* safe_name(snOnce, snFallback)

pipeVars == <<options, pc, calls, meta, chapters, i, error, dirExists, tempFile, outFiles>>
runVars == <<rpc, childOp, open, written, nWrites, exitCode, pipe, pumpPc, captured, retval>>
nameVars == <<snPc, snName, snFallback, snOnce, snTwice>>
vars == <<options, pc, calls, meta, chapters, i, error, dirExists, tempFile, outFiles,
          rpc, childOp, open, written, nWrites, exitCode, pipe, pumpPc, captured, retval,
          snPc, snName, snFallback, snOnce, snTwice>>

(***************************************************************************)
(* Bounds of the model.                                                    *)
(***************************************************************************)
MaxChapters == 2
MaxWrites == 3
PipeCap == 1

\* longest raw name tried on safe_name, not counting the filling of a long name
MaxNameLen == 3

(***************************************************************************)
(* Text helpers.                                                           *)
(***************************************************************************)
Min(a, b) == IF a <= b THEN a ELSE b

MaxSecond(a, b) == b

Max(a, b) == IF a >= b THEN a ELSE b

RECURSIVE Join(_)
\* "".join(chunks)
Join(chunks) == IF chunks = <<>> THEN <<>> ELSE Head(chunks) \o Join(Tail(chunks))

IsPrefix(s, t) == Len(s) <= Len(t) /\ SubSeq(t, 1, Len(s)) = s

(***************************************************************************)
(* safe_name and the formatting of the ordinal.                            *)
(***************************************************************************)
NameLimit == 180

Whitespace == {" ", "\t", "\n"}

Reserved == {"<", ">", ":", "\"", "/", "\\", "|", "?", "*"}

DigitChars == <<"0", "1", "2", "3", "4", "5", "6", "7", "8", "9">>

RECURSIVE Decimal(_)
\* str(n) of a natural number
Decimal(n) == IF n < 10 THEN <<DigitChars[n + 1]>>
              ELSE Decimal(n \div 10) \o <<DigitChars[(n % 10) + 1]>>

RECURSIVE ZeroFill(_, _)
ZeroFill(s, width) == IF Len(s) >= width THEN s ELSE ZeroFill(<<"0">> \o s, width)

\* f"{i:03d}"
Pad3(n) == ZeroFill(Decimal(n), 3)

\* s without its leading run of characters of the class
DropRun(s, class) ==
    LET keep == {k \in 1..Len(s) : s[k] \notin class}
    IN  IF keep = {} THEN <<>>
        ELSE SubSeq(s, CHOOSE k \in keep : \A j \in keep : k <= j, Len(s))

LStrip(s) == DropRun(s, Whitespace)

RStrip(s) ==
    LET keep == {k \in 1..Len(s) : s[k] \notin Whitespace}
    IN  IF keep = {} THEN <<>>
        ELSE SubSeq(s, 1, CHOOSE k \in keep : \A j \in keep : k >= j)

\* str.strip()
Strip(s) == RStrip(LStrip(s))

\* re.sub("[class]+", repl, s): every maximal run of the class becomes repl
SubRuns(s, class, repl) ==
    LET marked == [k \in 1..Len(s) |->
                      IF s[k] \notin class THEN s[k]
                      ELSE IF k > 1 /\ s[k - 1] \in class THEN "inside a run"
                      ELSE repl]
        Kept(c) == c # "inside a run"
    IN  SelectSeq(marked, Kept)

safe_name_of_fallback(name, fallback) ==
    LET n1 == fallback
        n2 == SubRuns(n1, Reserved, "_")
        n3 == Strip(SubRuns(n2, Whitespace, " "))
    IN  SubSeq(n3, 1, Min(NameLimit, Len(n3)))

safe_name(name, fallback) ==
    LET n1 == IF Strip(name) # <<>> THEN Strip(name) ELSE fallback
        n2 == SubRuns(n1, Reserved, "_")
        n3 == Strip(SubRuns(n2, Whitespace, " "))
    IN  SubSeq(n3, 1, Min(NameLimit, Len(n3)))

(***************************************************************************)
(* The tool's output as text, and its decoding.  A JSON text is a sequence *)
(* of tokens; a decoded JSON object is a set of <<key, value>> pairs.      *)
(***************************************************************************)
Tok(t) == [t |-> t, start_time |-> <<>>, end_time |-> <<>>]

Entry(s, e) == [t |-> "entry", start_time |-> s, end_time |-> e]

\* the chapter entries of the model: a chapter, one that ends before it starts,
\* and two with a time field that is no number
Entries ==
    {Entry(<<"0">>, <<"5">>), Entry(<<"5">>, <<"0">>),
     Entry(<<"x">>, <<"5">>), Entry(<<"0">>, <<"x">>)}

EntryLists == UNION {[1..n -> Entries] : n \in 0..MaxChapters}

ChaptersText(es) == <<Tok("{"), Tok("chapters"), Tok("[")>> \o es \o <<Tok("]"), Tok("}")>>

EmptyObjectText == <<Tok("{"), Tok("}")>>

FormatTagsText == <<Tok("{"), Tok("format"), Tok("}")>>

TruncatedText == <<Tok("{"), Tok("chapters"), Tok("[")>>

\* what a probe may print on stdout
ProbeTexts == {<<>>, TruncatedText, EmptyObjectText, FormatTagsText}
                  \cup {ChaptersText(es) : es \in EntryLists}

IsChaptersText(text) ==
    /\ Len(text) >= 5
    /\ SubSeq(text, 1, 3) = <<Tok("{"), Tok("chapters"), Tok("[")>>
    /\ SubSeq(text, Len(text) - 1, Len(text)) = <<Tok("]"), Tok("}")>>
    /\ \A k \in 4..(Len(text) - 2) : text[k].t = "entry"

JsonFailsUnlessEmpty(text) ==
    text # <<>> /\ ~(text = EmptyObjectText \/ text = FormatTagsText \/ IsChaptersText(text))

\* json.JSONDecoder().decode(text) raises JSONDecodeError
JsonFails(text) ==
    ~(text = EmptyObjectText \/ text = FormatTagsText \/ IsChaptersText(text))

\* json.JSONDecoder().decode(text), for a text it accepts
JsonDecode(text) ==
    IF text = EmptyObjectText THEN {}
    ELSE IF text = FormatTagsText THEN {<<"format", <<>> >>}
    ELSE {<<"chapters", SubSeq(text, 4, Len(text) - 2)>>}

HasKey(obj, key) == \E p \in obj : p[1] = key

Lookup(obj, key) == (CHOOSE p \in obj : p[1] = key)[2]

\* float(s) raises ValueError
FloatFails(s) == s = <<>> \/ \E k \in 1..Len(s) : \A d \in 1..10 : DigitChars[d] # s[k]

DigitValue(c) == (CHOOSE d \in 1..10 : DigitChars[d] = c) - 1

RECURSIVE ToFloat(_)
\* float(s), for a string of digits
ToFloat(s) == IF s = <<>> THEN 0
              ELSE 10 * ToFloat(SubSeq(s, 1, Len(s) - 1)) + DigitValue(s[Len(s)])

(***************************************************************************)
(* The pipeline: convert and the four Ffmpeg methods it awaits.            *)
(***************************************************************************)
ExitCodes == {0, 1}

Titles == {<<"E", "p">>, <<" ">>, <<>>}

OutPaths == {".", "out"}

NoPath == [dir |-> "", name |-> <<>>]

InputPath == [dir |-> ".", name |-> <<"b", ".", "a", "a", "x">>]

\* a file that is in the output directory before convert runs
OldFile(dir) == [dir |-> dir, name |-> <<"o", "l", "d">>]

temp_name == [dir |-> ".", name |-> <<"t", "e", "s", "t", ".", "m", "p", "3">>]

\* what the metadata probe and the chapter probe may print
MetaTexts == {<<>>, TruncatedText, EmptyObjectText, FormatTagsText}

ChapterTexts == ProbeTexts

\* a run_program call: the program, the arguments that vary, and, once the child
\* has exited and both streams are drained, what run_program returns
Call(kind, inp, out, start, dur, title) ==
    [kind |-> kind, inp |-> inp, out |-> out, start |-> start, dur |-> dur,
     title |-> title, alive |-> TRUE, rc |-> 0, outputs |-> <<>>]

get_metainfo_call(inp) == Call("probe_meta", inp, NoPath, 0, 0, <<>>)

get_chapters_call(inp) == Call("probe_chapters", inp, NoPath, 0, 0, <<>>)

convert_aax_ap3_call(inp, out) == Call("transcode", inp, out, 0, 0, <<>>)

split_ap3_call(inp, out, start, dur, title) == Call("split", inp, out, start, dur, title)

Alive == {k \in 1..Len(calls) : calls[k].alive}

LastCall == calls[Len(calls)]

\* the await of a run_program call is over: the call has returned
Returned == calls # <<>> /\ ~LastCall.alive

SplitNotAwaited == calls # <<>>

TranscodeNotAwaited == calls # <<>>

\* `await ffmpeg.convert_aax_ap3(...)`: convert goes on when the transcode has returned
TranscodeAwaited == Returned

\* `await ffmpeg.split_ap3(...)`: the loop goes on when the split has returned
SplitAwaited == Returned

\* enumerate(chapters, start=0)
OrdinalFromZero(k) == k - 1

\* enumerate(chapters, start=1): the ordinal of the k-th chapter
Ordinal(k) == k

LoopEndsEarly(chs, k) == k >= Len(chs)

\* the for loop is over once the k-1 chapters before the k-th were all taken
LoopEnds(chs, k) == k > Len(chs)

FileTitleWithoutOrdinal(n, title) == safe_name(title, Pad3(n) \o <<" ">> \o title)

\* f"{i:03d} - {safe_name(title, f'{i:03d} {title}')}"
FileTitle(n, title) ==
    Pad3(n) \o <<" ", "-", " ">> \o safe_name(title, Pad3(n) \o <<" ">> \o title)

FileName(n, title) == FileTitle(n, title) \o <<".", "m", "p", "3">>

\* the body of the loop for the k-th chapter, up to its await: the exception it
\* raises, or the split it launches
LoopBody(chs, k, opts) ==
    LET ch == chs[k]
        n == Ordinal(k)
    IN  IF FloatFails(ch.start_time) \/ FloatFails(ch.end_time)
        THEN [pc |-> "failed", error |-> "ValueError", launch |-> <<>>]
        ELSE LET start == ToFloat(ch.start_time)
                 end == ToFloat(ch.end_time)
                 dur == Max(0, end - start)
             IN  [pc |-> "split", error |-> "none",
                  launch |-> <<split_ap3_call(temp_name,
                                              [dir |-> opts.out_path,
                                               name |-> FileName(n, opts.title)],
                                              start, dur, FileTitle(n, opts.title))>>]

\* the loop from its k-th round on, up to the next await
Loop(chs, k, opts) ==
    IF LoopEnds(chs, k) THEN [pc |-> "done", error |-> "none", launch |-> <<>>]
    ELSE LoopBody(chs, k, opts)

Init ==
    /\ options \in [title : Titles, out_path : OutPaths]
    /\ pc = "start"
    /\ calls = <<>>
    /\ meta = {}
    /\ chapters = <<>>
    /\ i = 0
    /\ error = "none"
    /\ dirExists \in (IF options.out_path = "." THEN {TRUE} ELSE BOOLEAN)
    /\ tempFile = "absent"
    /\ outFiles \in (IF dirExists /\ options.out_path # "."
                     THEN {{}, {OldFile(options.out_path)}} ELSE {{}})
    /\ rpc = "idle"
    /\ childOp = [op |-> "none", s |-> "out", b |-> "a", rc |-> 0]
    /\ open = [s \in {"out", "err"} |-> FALSE]
    /\ written = [s \in {"out", "err"} |-> <<>>]
    /\ nWrites = 0
    /\ exitCode = 0
    /\ pipe = [s \in {"out", "err"} |-> <<>>]
    /\ pumpPc = [s \in {"out", "err"} |-> "idle"]
    /\ captured = [s \in {"out", "err"} |-> <<>>]
    /\ retval = [rc |-> 0, outputs |-> <<>>, errors |-> <<>>]
    /\ snPc = "none"
    /\ snName = <<>>
    /\ snFallback = <<>>
    /\ snOnce = <<>>
    /\ snTwice = <<>>

StartExistNotOk ==
    /\ pc = "start"
    /\ IF dirExists
       THEN /\ pc' = "failed"
            /\ error' = "FileExistsError"
            /\ UNCHANGED <<dirExists, calls>>
       ELSE /\ dirExists' = TRUE
            /\ calls' = <<get_metainfo_call(InputPath)>>
            /\ pc' = "meta"
            /\ UNCHANGED error
    /\ UNCHANGED <<options, meta, chapters, i, tempFile, outFiles>>
    /\ UNCHANGED runVars
    /\ UNCHANGED nameVars

\* convert, lines 131-136: mkdir, then get_metainfo up to its await
Start ==
    /\ pc = "start"
    /\ dirExists' = TRUE
    /\ calls' = <<get_metainfo_call(InputPath)>>
    /\ pc' = "meta"
    /\ UNCHANGED <<options, meta, chapters, i, error, tempFile, outFiles>>
    /\ UNCHANGED runVars
    /\ UNCHANGED nameVars

\* the child of a probe prints its text, closes its streams and exits; run_program
\* has then drained both streams and has the exit code
ProbeExits(k) ==
    /\ calls[k].alive
    /\ calls[k].kind \in {"probe_meta", "probe_chapters"}
    /\ \E rc \in ExitCodes :
       \E text \in (IF calls[k].kind = "probe_meta" THEN MetaTexts ELSE ChapterTexts) :
          calls' = [calls EXCEPT ![k].alive = FALSE, ![k].rc = rc,
                                 ![k].outputs = IF text = <<>> THEN <<>> ELSE <<text>>]
    /\ UNCHANGED <<options, pc, meta, chapters, i, error, dirExists, tempFile, outFiles>>
    /\ UNCHANGED runVars
    /\ UNCHANGED nameVars

\* the transcoding child exits, having written the intermediate file or not
TranscodeExits(k) ==
    /\ calls[k].alive
    /\ calls[k].kind = "transcode"
    /\ \E rc \in ExitCodes :
          /\ calls' = [calls EXCEPT ![k].alive = FALSE, ![k].rc = rc]
          /\ tempFile' \in (IF rc = 0 THEN {"data"} ELSE {tempFile, "empty", "data"})
    /\ UNCHANGED <<options, pc, meta, chapters, i, error, dirExists, outFiles>>
    /\ UNCHANGED runVars
    /\ UNCHANGED nameVars

\* a splitting child exits, having written its output file or not
SplitExits(k) ==
    /\ calls[k].alive
    /\ calls[k].kind = "split"
    /\ \E rc \in ExitCodes :
          /\ calls' = [calls EXCEPT ![k].alive = FALSE, ![k].rc = rc]
          /\ outFiles' \in (IF rc = 0 THEN {outFiles \cup {calls[k].out}}
                            ELSE {outFiles, outFiles \cup {calls[k].out}})
    /\ UNCHANGED <<options, pc, meta, chapters, i, error, dirExists, tempFile>>
    /\ UNCHANGED runVars
    /\ UNCHANGED nameVars

MetaReturnsNeedsFormat ==
    /\ pc = "meta"
    /\ Returned
    /\ LET text == Join(LastCall.outputs)
       IN  IF JsonFails(text)
           THEN /\ pc' = "failed"
                /\ error' = "JSONDecodeError"
                /\ UNCHANGED <<meta, calls>>
           ELSE IF ~HasKey(JsonDecode(text), "format")
           THEN /\ pc' = "failed"
                /\ error' = "KeyError"
                /\ UNCHANGED <<meta, calls>>
           ELSE /\ meta' = JsonDecode(text)
                /\ calls' = Append(calls, convert_aax_ap3_call(InputPath, temp_name))
                /\ pc' = "transcode"
                /\ UNCHANGED error
    /\ UNCHANGED <<options, chapters, i, dirExists, tempFile, outFiles>>
    /\ UNCHANGED runVars
    /\ UNCHANGED nameVars

\* get_metainfo after its await (lines 67-69), then convert lines 137-138:
\* convert_aax_ap3 up to its await
MetaReturns ==
    /\ pc = "meta"
    /\ Returned
    /\ LET text == Join(LastCall.outputs)
       IN  IF JsonFails(text)
           THEN /\ pc' = "failed"
                /\ error' = "JSONDecodeError"
                /\ UNCHANGED <<meta, calls>>
           ELSE /\ meta' = JsonDecode(text)
                /\ calls' = Append(calls, convert_aax_ap3_call(InputPath, temp_name))
                /\ pc' = "transcode"
                /\ UNCHANGED error
    /\ UNCHANGED <<options, chapters, i, dirExists, tempFile, outFiles>>
    /\ UNCHANGED runVars
    /\ UNCHANGED nameVars

\* convert_aax_ap3 after its await (nothing), then convert line 139: get_chapters
\* up to its await
TranscodeReturns ==
    /\ pc = "transcode"
    /\ TranscodeAwaited
    /\ calls' = Append(calls, get_chapters_call(temp_name))
    /\ pc' = "chapters"
    /\ UNCHANGED <<options, meta, chapters, i, error, dirExists, tempFile, outFiles>>
    /\ UNCHANGED runVars
    /\ UNCHANGED nameVars

\* get_chapters after its await (lines 79-81), then convert lines 140-149 up to
\* the await of the first split
ChaptersReturn ==
    /\ pc = "chapters"
    /\ Returned
    /\ LET text == Join(LastCall.outputs)
       IN  IF JsonFails(text)
           THEN /\ pc' = "failed"
                /\ error' = "JSONDecodeError"
                /\ UNCHANGED <<chapters, i, calls>>
           ELSE IF ~HasKey(JsonDecode(text), "chapters")
           THEN /\ pc' = "failed"
                /\ error' = "KeyError"
                /\ UNCHANGED <<chapters, i, calls>>
           ELSE LET chs == Lookup(JsonDecode(text), "chapters")
                    next == Loop(chs, 1, options)
                IN  /\ chapters' = chs
                    /\ i' = IF LoopEnds(chs, 1) THEN 0 ELSE 1
                    /\ pc' = next.pc
                    /\ error' = next.error
                    /\ calls' = calls \o next.launch
    /\ UNCHANGED <<options, meta, dirExists, tempFile, outFiles>>
    /\ UNCHANGED runVars
    /\ UNCHANGED nameVars

SplitReturnsWithCleanup ==
    /\ pc = "split"
    /\ SplitAwaited
    /\ LET next == Loop(chapters, i + 1, options)
       IN  /\ i' = IF LoopEnds(chapters, i + 1) THEN i ELSE i + 1
           /\ pc' = next.pc
           /\ error' = next.error
           /\ calls' = calls \o next.launch
           /\ tempFile' = IF next.pc = "failed" THEN "absent" ELSE tempFile
           /\ outFiles' = IF next.pc = "failed" THEN {} ELSE outFiles
    /\ UNCHANGED <<options, meta, chapters, dirExists>>
    /\ UNCHANGED runVars
    /\ UNCHANGED nameVars

SplitReturnsChecksExit ==
    /\ pc = "split"
    /\ SplitAwaited
    /\ LET next == IF LastCall.rc # 0
                   THEN [pc |-> "failed", error |-> "CalledProcessError", launch |-> <<>>]
                   ELSE Loop(chapters, i + 1, options)
       IN  /\ i' = IF LoopEnds(chapters, i + 1) \/ LastCall.rc # 0 THEN i ELSE i + 1
           /\ pc' = next.pc
           /\ error' = next.error
           /\ calls' = calls \o next.launch
    /\ UNCHANGED <<options, meta, chapters, dirExists, tempFile, outFiles>>
    /\ UNCHANGED runVars
    /\ UNCHANGED nameVars

\* split_ap3 after its await (nothing), then the next round of the loop, lines
\* 142-149, up to the await of the next split
SplitReturns ==
    /\ pc = "split"
    /\ SplitAwaited
    /\ LET next == Loop(chapters, i + 1, options)
       IN  /\ i' = IF LoopEnds(chapters, i + 1) THEN i ELSE i + 1
           /\ pc' = next.pc
           /\ error' = next.error
           /\ calls' = calls \o next.launch
    /\ UNCHANGED <<options, meta, chapters, dirExists, tempFile, outFiles>>
    /\ UNCHANGED runVars
    /\ UNCHANGED nameVars

Next ==
    \/ Start
    \/ \E k \in 1..Len(calls) : ProbeExits(k)
    \/ \E k \in 1..Len(calls) : TranscodeExits(k)
    \/ \E k \in 1..Len(calls) : SplitExits(k)
    \/ MetaReturns
    \/ TranscodeReturns
    \/ ChaptersReturn
    \/ SplitReturns

Spec == Init /\ [][Next]_vars

(***************************************************************************)
(* One run_program call in detail.  The child commits to one operation at  *)
(* a time: a one-byte write to a stream (blocking while that pipe is       *)
(* full), the closing of a stream, or its exit.  Bytes: "a" is an ASCII    *)
(* byte, "L" the lead byte and "C" the continuation byte of a two-byte     *)
(* UTF-8 character.                                                        *)
(***************************************************************************)
ReadSize == 1048576

Streams == {"out", "err"}

Bytes == {"a", "L", "C"}

RECURSIVE Decode(_)
\* bytes.decode(errors="replace"): "a" is itself, "L" "C" is the character "U",
\* and a byte that begins no character is the replacement character "?"
Decode(b) ==
    IF b = <<>> THEN <<>>
    ELSE IF Head(b) = "a" THEN <<"a">> \o Decode(Tail(b))
    ELSE IF Head(b) = "L" /\ Len(b) >= 2 /\ b[2] = "C" THEN <<"U">> \o Decode(Tail(Tail(b)))
    ELSE <<"?">> \o Decode(Tail(b))

NoOp == [op |-> "none", s |-> "out", b |-> "a", rc |-> 0]

ExitedOp == [op |-> "exited", s |-> "out", b |-> "a", rc |-> 0]

\* the operations a child may turn to, with these streams open, after n writes
ChildOps(op, n) ==
    {[op |-> "write", s |-> s, b |-> b, rc |-> 0] :
        s \in {t \in Streams : op[t] /\ n < MaxWrites}, b \in Bytes}
    \cup {[op |-> "close", s |-> s, b |-> "a", rc |-> 0] : s \in {t \in Streams : op[t]}}
    \cup {[op |-> "exit", s |-> "out", b |-> "a", rc |-> rc] : rc \in ExitCodes}

\* the child is in a write to stream s that cannot proceed
ChildBlocked(s) == childOp.op = "write" /\ childOp.s = s /\ Len(pipe[s]) >= PipeCap

PumpActiveInTurn(s) == pumpPc[s] = "reading" /\ (s = "out" \/ pumpPc["out"] = "done")

\* asyncio.gather(pump_bytes(stdout), pump_bytes(stderr)): both loops are tasks
\* of the event loop, each runs whenever its read can return
PumpActive(s) == pumpPc[s] = "reading"

OneDrained == \E s \in Streams : pumpPc[s] = "done"

\* `await asyncio.gather(...)` returns when both loops have ended
BothDrained == \A s \in Streams : pumpPc[s] = "done"

InitRun ==
    /\ options = [title |-> <<"E", "p">>, out_path |-> "."]
    /\ pc = "start"
    /\ calls = <<>>
    /\ meta = {}
    /\ chapters = <<>>
    /\ i = 0
    /\ error = "none"
    /\ dirExists = TRUE
    /\ tempFile = "absent"
    /\ outFiles = {}
    /\ rpc = "idle"
    /\ childOp = NoOp
    /\ open = [s \in Streams |-> FALSE]
    /\ written = [s \in Streams |-> <<>>]
    /\ nWrites = 0
    /\ exitCode = 0
    /\ pipe = [s \in Streams |-> <<>>]
    /\ pumpPc = [s \in Streams |-> "idle"]
    /\ captured = [s \in Streams |-> <<>>]
    /\ retval = [rc |-> 0, outputs |-> <<>>, errors |-> <<>>]
    /\ snPc = "none"
    /\ snName = <<>>
    /\ snFallback = <<>>
    /\ snOnce = <<>>
    /\ snTwice = <<>>

\* run_program lines 44-55 up to the await of gather: the child is created with
\* both streams piped, and the two pump_bytes loops are started
Launch ==
    /\ rpc = "idle"
    /\ rpc' = "gather"
    /\ open' = [s \in Streams |-> TRUE]
    /\ childOp' \in ChildOps([s \in Streams |-> TRUE], 0)
    /\ pumpPc' = [s \in Streams |-> "reading"]
    /\ UNCHANGED <<written, nWrites, exitCode, pipe, captured, retval>>
    /\ UNCHANGED pipeVars
    /\ UNCHANGED nameVars

\* the child's write of one byte goes through: the pipe has room
ChildWrite ==
    /\ childOp.op = "write"
    /\ ~ChildBlocked(childOp.s)
    /\ pipe' = [pipe EXCEPT ![childOp.s] = Append(@, childOp.b)]
    /\ written' = [written EXCEPT ![childOp.s] = Append(@, childOp.b)]
    /\ nWrites' = nWrites + 1
    /\ childOp' \in ChildOps(open, nWrites + 1)
    /\ UNCHANGED <<rpc, open, exitCode, pumpPc, captured, retval>>
    /\ UNCHANGED pipeVars
    /\ UNCHANGED nameVars

\* the child closes one of its streams
ChildClose ==
    /\ childOp.op = "close"
    /\ open' = [open EXCEPT ![childOp.s] = FALSE]
    /\ childOp' \in ChildOps(open', nWrites)
    /\ UNCHANGED <<rpc, written, nWrites, exitCode, pipe, pumpPc, captured, retval>>
    /\ UNCHANGED pipeVars
    /\ UNCHANGED nameVars

\* the child exits: its streams are closed and its exit code is set
ChildExit ==
    /\ childOp.op = "exit"
    /\ exitCode' = childOp.rc
    /\ open' = [s \in Streams |-> FALSE]
    /\ childOp' = ExitedOp
    /\ UNCHANGED <<rpc, written, nWrites, pipe, pumpPc, captured, retval>>
    /\ UNCHANGED pipeVars
    /\ UNCHANGED nameVars

\* pump_bytes lines 39-43: stream.read returns a non-empty chunk of at most
\* ReadSize of the bytes that have arrived; it is decoded and appended
PumpRead(s) ==
    /\ rpc = "gather"
    /\ PumpActive(s)
    /\ pipe[s] # <<>>
    /\ \E n \in 1..Min(Len(pipe[s]), ReadSize) :
          /\ captured' = [captured EXCEPT ![s] = Append(@, Decode(SubSeq(pipe[s], 1, n)))]
          /\ pipe' = [pipe EXCEPT ![s] = SubSeq(@, n + 1, Len(@))]
    /\ UNCHANGED <<rpc, childOp, open, written, nWrites, exitCode, pumpPc, retval>>
    /\ UNCHANGED pipeVars
    /\ UNCHANGED nameVars

\* pump_bytes lines 39-41: stream.read returns b"" at end-of-stream, the loop ends
PumpEof(s) ==
    /\ rpc = "gather"
    /\ PumpActive(s)
    /\ pipe[s] = <<>>
    /\ ~open[s]
    /\ pumpPc' = [pumpPc EXCEPT ![s] = "done"]
    /\ UNCHANGED <<rpc, childOp, open, written, nWrites, exitCode, pipe, captured, retval>>
    /\ UNCHANGED pipeVars
    /\ UNCHANGED nameVars

\* run_program lines 52-56: gather returns, process.wait() is awaited
GatherReturns ==
    /\ rpc = "gather"
    /\ BothDrained
    /\ rpc' = "wait"
    /\ UNCHANGED <<childOp, open, written, nWrites, exitCode, pipe, pumpPc, captured, retval>>
    /\ UNCHANGED pipeVars
    /\ UNCHANGED nameVars

\* run_program lines 56-57: process.wait() returns the exit code of the child
\* that has exited, and run_program returns it with the two captures
WaitReturns ==
    /\ rpc = "wait"
    /\ childOp.op = "exited"
    /\ retval' = [rc |-> exitCode, outputs |-> captured["out"],
                  errors |-> captured["err"]]
    /\ rpc' = "returned"
    /\ UNCHANGED <<childOp, open, written, nWrites, exitCode, pipe, pumpPc, captured>>
    /\ UNCHANGED pipeVars
    /\ UNCHANGED nameVars

NextRun ==
    \/ Launch
    \/ ChildWrite
    \/ ChildClose
    \/ ChildExit
    \/ \E s \in Streams : PumpRead(s)
    \/ \E s \in Streams : PumpEof(s)
    \/ GatherReturns
    \/ WaitReturns

SpecRun == InitRun /\ [][NextRun]_vars

\* the event loop runs every task that can run, and the operating system runs
\* the child
FairSpecRun ==
    /\ SpecRun
    /\ WF_vars(ChildWrite) /\ WF_vars(ChildClose) /\ WF_vars(ChildExit)
    /\ \A s \in Streams : WF_vars(PumpRead(s)) /\ WF_vars(PumpEof(s))
    /\ WF_vars(GatherReturns) /\ WF_vars(WaitReturns)

(***************************************************************************)
(* The claims.                                                             *)
(***************************************************************************)
ExpectedKind(k) ==
    IF k = 1 THEN "probe_meta"
    ELSE IF k = 2 THEN "transcode"
    ELSE IF k = 3 THEN "probe_chapters"
    ELSE "split"

\* C1: the tool invocations of convert occur in the fixed order metadata probe,
\* transcode, chapter probe, split 1, ..., split N: the k-th call is of the k-th
\* stage, a call is made only when every earlier child has run to completion,
\* convert's position agrees with the number of calls made, and a run that ends
\* in done has made all 3 + N calls, none twice and none skipped.
C1_StageOrder ==
    /\ \A k \in 1..Len(calls) : calls[k].kind = ExpectedKind(k)
    /\ \A k \in 4..Len(calls) : SubSeq(calls[k].title, 1, 3) = Pad3(k - 3)
    /\ \A k \in 1..(Len(calls) - 1) : ~calls[k].alive
    /\ (pc = "start" => Len(calls) = 0)
    /\ (pc = "meta" => Len(calls) = 1)
    /\ (pc = "transcode" => Len(calls) = 2)
    /\ (pc = "chapters" => Len(calls) = 3)
    /\ (pc = "split" => i \in 1..Len(chapters) /\ Len(calls) = 3 + i)
    /\ (pc = "done" => Len(calls) = 3 + Len(chapters) /\ \A k \in 1..Len(calls) : ~calls[k].alive)

C1_Witness == pc = "done" /\ Len(chapters) = 2 /\ Len(calls) = 5

\* C2: run_program never deadlocks: whenever the child is blocked in a write to a
\* full pipe, the runner's loop for that pipe can read it, and every call that
\* has launched its child eventually returns.
C2_NeverDeadlocks ==
    /\ [](\A s \in Streams : ChildBlocked(s) => ENABLED PumpRead(s))
    /\ ((rpc = "gather") ~> (rpc = "returned"))

C2_Witness ==
    /\ rpc = "returned"
    /\ Len(written["out"]) >= PipeCap
    /\ Len(written["err"]) > PipeCap

\* C3: at most one child process is alive at any time.
C3_OneChildAlive == Cardinality({k \in 1..Len(calls) : calls[k].alive}) <= 1

C3_Witness ==
    /\ Len(calls) = 5
    /\ calls[5].kind = "split"
    /\ calls[5].alive
    /\ ~calls[4].alive

AllNumeric(chs) ==
    \A k \in 1..Len(chs) : ~FloatFails(chs[k].start_time) /\ ~FloatFails(chs[k].end_time)

\* C4: the n-th split is for the n-th chapter of the list the probe returned, in
\* that order, and writes a file whose name starts with the zero-padded n; for a
\* list of N chapters with numeric times convert never fails and ends with
\* exactly N splits made.
C4_SplitPerChapter ==
    LET splits == SubSeq(calls, 4, Len(calls))
    IN  /\ Len(splits) <= Len(chapters)
        /\ \A n \in 1..Len(splits) :
              /\ splits[n].kind = "split"
              /\ splits[n].inp = temp_name
              /\ ~FloatFails(chapters[n].start_time)
              /\ ~FloatFails(chapters[n].end_time)
              /\ splits[n].start = ToFloat(chapters[n].start_time)
              /\ splits[n].dur =
                    Max(0, ToFloat(chapters[n].end_time) - ToFloat(chapters[n].start_time))
              /\ IsPrefix(ZeroFill(Decimal(n), 3), splits[n].out.name)
        /\ (Len(calls) >= 3 /\ pc \notin {"chapters", "failed"} /\ AllNumeric(chapters)
               => pc \in {"split", "done"})
        /\ (AllNumeric(chapters) /\ Len(calls) > 3 => pc # "failed")
        /\ (pc = "done" => Len(splits) = Len(chapters))

C4_Witness ==
    /\ pc = "done"
    /\ Len(chapters) = 2
    /\ chapters[1].start_time = <<"5">>
    /\ chapters[2].start_time = <<"0">>
    /\ Len(calls) = 5
    /\ calls[4].start = 5
    /\ calls[5].start = 0
    /\ SubSeq(calls[4].out.name, 1, 3) = <<"0", "0", "1">>
    /\ SubSeq(calls[5].out.name, 1, 3) = <<"0", "0", "2">>

ChapterProbeGave(rc, text) ==
    /\ Len(calls) >= 3
    /\ ~calls[3].alive
    /\ calls[3].rc = rc
    /\ Join(calls[3].outputs) = text

\* C5: when the chapter probe exits with code 1 and empty stdout, get_chapters
\* raises, convert ends in the failed state with nothing left to run, the
\* transcoder has been invoked once and no split is ever invoked.
C5_EmptyProbeAborts ==
    ChapterProbeGave(1, <<>>) =>
        /\ Len(calls) = 3
        /\ Cardinality({k \in 1..Len(calls) : calls[k].kind = "transcode"}) = 1
        /\ pc \in {"chapters", "failed"}
        /\ chapters = <<>>
        /\ (pc = "failed" => error = "JSONDecodeError" /\ ~ENABLED Next)

C5_Witness == ChapterProbeGave(1, <<>>) /\ pc = "failed"

\* C6: get_metainfo fails whenever the probe's exit code is non-zero or its stdout
\* does not parse, so that after such a probe the transcoder is never invoked.
C6_MetaProbeFailureStops ==
    (/\ Len(calls) >= 1
     /\ ~calls[1].alive
     /\ (calls[1].rc # 0 \/ JsonFails(Join(calls[1].outputs))))
        => /\ Len(calls) = 1
           /\ pc \in {"meta", "failed"}

\* C7: when the chapter field is absent or some entry of the probe's response has
\* a non-numeric time, convert fails in the chapter-probe stage, before any split
\* is invoked.
C7_BadChaptersFailBeforeSplit ==
    (/\ Len(calls) >= 3
     /\ ~calls[3].alive
     /\ pc # "chapters"
     /\ ~JsonFails(Join(calls[3].outputs))
     /\ LET obj == JsonDecode(Join(calls[3].outputs))
        IN  ~HasKey(obj, "chapters") \/ ~AllNumeric(Lookup(obj, "chapters")))
        => /\ pc = "failed"
           /\ Len(calls) = 3

\* C8: the chapter probe and the splits are invoked only when the intermediate
\* file exists and is non-empty.
C8_IntermediateChecked ==
    (\E k \in 1..Len(calls) : calls[k].kind \in {"probe_chapters", "split"})
        => tempFile = "data"

\* C9: run_program returns only after both loops have seen end-of-stream and the
\* child has exited, with every byte the child wrote read, and it returns the
\* child's exit code as it is, zero or not.
C9_ReturnsAfterDrainAndExit ==
    /\ (rpc \in {"wait", "returned"} => \A s \in Streams : pumpPc[s] = "done")
    /\ (rpc = "returned" =>
           /\ childOp.op = "exited"
           /\ \A s \in Streams : pipe[s] = <<>> /\ ~open[s]
           /\ retval.rc = exitCode
           /\ Len(retval.outputs) + Len(retval.errors) <= nWrites)

C9_Witness ==
    /\ rpc = "returned"
    /\ retval.rc = 1
    /\ Len(written["out"]) > PipeCap
    /\ Len(retval.outputs) > 1
    /\ retval.errors # <<>>

\* C10: when run_program returns, the concatenation of each capture is the text
\* the child wrote to that stream.
C10_CapturesAreWhatWasWritten ==
    rpc = "returned" =>
        /\ Join(retval.outputs) = Decode(written["out"])
        /\ Join(retval.errors) = Decode(written["err"])

Writers(path) == {k \in 1..Len(calls) : calls[k].out = path}

Readers(path) == {k \in 1..Len(calls) : calls[k].inp = path}

\* C11: the intermediate file has one writer, the transcoder, and every reader of
\* it (the chapter probe, each split) is launched after that writer has exited;
\* no call made at or after the first reader writes it, and no split's output
\* path is the intermediate file's path.
C11_SingleWriterThenReaders ==
    /\ Cardinality(Writers(temp_name)) <= 1
    /\ \A w \in Writers(temp_name) : calls[w].kind = "transcode"
    /\ \A r \in Readers(temp_name) :
          /\ calls[r].kind \in {"probe_chapters", "split"}
          /\ \E w \in Writers(temp_name) : w < r /\ ~calls[w].alive
          /\ \A w \in Writers(temp_name) : w < r /\ ~calls[w].alive
    /\ \A k \in 1..Len(calls) : calls[k].kind = "split" => calls[k].out # temp_name
    /\ (tempFile # "absent" => \E w \in Writers(temp_name) : ~calls[w].alive)

C11_Witness ==
    /\ Len(calls) = 5
    /\ options.out_path = "."
    /\ calls[5].alive
    /\ calls[5].inp = temp_name
    /\ calls[5].out.dir = temp_name.dir
    /\ tempFile = "data"

SplitCalls == {k \in 1..Len(calls) : calls[k].kind = "split"}

\* C12: within one run, two distinct split invocations never have the same output
\* path, whatever the title (all chapters share it) and however many chapters.
C12_DistinctOutputs ==
    \A j \in SplitCalls : \A k \in SplitCalls : j # k => calls[j].out # calls[k].out

\* two splits whose names differ in the ordinal alone: the title part is the same
C12_Witness ==
    /\ Len(calls) = 5
    /\ options.title = <<"E", "p">>
    /\ calls[4].kind = "split"
    /\ calls[5].kind = "split"
    /\ SubSeq(calls[4].out.name, 4, Len(calls[4].out.name))
          = SubSeq(calls[5].out.name, 4, Len(calls[5].out.name))
    /\ calls[4].out # calls[5].out

\* C13: the duration passed to every split is never negative: it is end - start
\* when end >= start and 0 when end < start, and no exception is raised for it;
\* the start passed is the chapter's start time.
C13_DurationClamped ==
    /\ \A k \in 4..Len(calls) :
          LET ch == chapters[k - 3]
              start == ToFloat(ch.start_time)
              end == ToFloat(ch.end_time)
          IN  /\ calls[k].dur >= 0
              /\ calls[k].dur = (IF end >= start THEN end - start ELSE 0)
              /\ calls[k].start = start
    /\ (pc = "failed" /\ error = "ValueError" =>
           \E k \in 1..Len(chapters) :
              FloatFails(chapters[k].start_time) \/ FloatFails(chapters[k].end_time))

\* a split of a chapter that ends before it starts
C13_Witness ==
    /\ Len(calls) >= 4
    /\ chapters[1] = Entry(<<"5">>, <<"0">>)
    /\ calls[4].kind = "split"
    /\ calls[4].start = 5
    /\ calls[4].dur = 0

(***************************************************************************)
(* The pipeline on one given input: the title "Episode" and a chapter      *)
(* probe that prints three chapters, 0-10, 10-25 and 25-25.                *)
(***************************************************************************)
EpisodeTitle == <<"E", "p", "i", "s", "o", "d", "e">>

EpisodeChapters ==
    <<Entry(<<"0">>, <<"1", "0">>), Entry(<<"1", "0">>, <<"2", "5">>),
      Entry(<<"2", "5">>, <<"2", "5">>)>>

InitEpisode ==
    /\ options \in [title : {EpisodeTitle}, out_path : OutPaths]
    /\ pc = "start"
    /\ calls = <<>>
    /\ meta = {}
    /\ chapters = <<>>
    /\ i = 0
    /\ error = "none"
    /\ dirExists \in (IF options.out_path = "." THEN {TRUE} ELSE BOOLEAN)
    /\ tempFile = "absent"
    /\ outFiles = {}
    /\ rpc = "idle"
    /\ childOp = [op |-> "none", s |-> "out", b |-> "a", rc |-> 0]
    /\ open = [s \in {"out", "err"} |-> FALSE]
    /\ written = [s \in {"out", "err"} |-> <<>>]
    /\ nWrites = 0
    /\ exitCode = 0
    /\ pipe = [s \in {"out", "err"} |-> <<>>]
    /\ pumpPc = [s \in {"out", "err"} |-> "idle"]
    /\ captured = [s \in {"out", "err"} |-> <<>>]
    /\ retval = [rc |-> 0, outputs |-> <<>>, errors |-> <<>>]
    /\ snPc = "none"
    /\ snName = <<>>
    /\ snFallback = <<>>
    /\ snOnce = <<>>
    /\ snTwice = <<>>

\* the child of a probe exits; the chapter probe has printed the three chapters
EpisodeProbeExits(k) ==
    /\ calls[k].alive
    /\ calls[k].kind \in {"probe_meta", "probe_chapters"}
    /\ \E rc \in ExitCodes :
       \E text \in (IF calls[k].kind = "probe_meta" THEN MetaTexts
                    ELSE {ChaptersText(EpisodeChapters)}) :
          calls' = [calls EXCEPT ![k].alive = FALSE, ![k].rc = rc,
                                 ![k].outputs = IF text = <<>> THEN <<>> ELSE <<text>>]
    /\ UNCHANGED <<options, pc, meta, chapters, i, error, dirExists, tempFile, outFiles>>
    /\ UNCHANGED runVars
    /\ UNCHANGED nameVars

NextEpisode ==
    \/ Start
    \/ \E k \in 1..Len(calls) : EpisodeProbeExits(k)
    \/ \E k \in 1..Len(calls) : TranscodeExits(k)
    \/ \E k \in 1..Len(calls) : SplitExits(k)
    \/ MetaReturns
    \/ TranscodeReturns
    \/ ChaptersReturn
    \/ SplitReturns

SpecEpisode == InitEpisode /\ [][NextEpisode]_vars

Mp3 == <<".", "m", "p", "3">>

\* the splits made so far are the first of three, with starts 0, 10, 25 and
\* durations 10, 15, 0 and these file names, and a run that is done made all three
EpisodeSplitsAre(names) ==
    LET starts == <<0, 10, 25>>
        durs == <<10, 15, 0>>
    IN  /\ Len(calls) <= 6
        /\ \A n \in 1..(Len(calls) - 3) :
              /\ calls[3 + n].kind = "split"
              /\ calls[3 + n].start = starts[n]
              /\ calls[3 + n].dur = durs[n]
              /\ calls[3 + n].out.name = names[n]
              /\ calls[3 + n].out.dir = options.out_path
        /\ (Len(calls) >= 4 => pc \in {"split", "done"})
        /\ (pc = "done" => Len(calls) = 6)

\* C14, as amended: for the three chapters 0-10, 10-25, 25-25 and the title
\* "Episode", convert makes exactly three splits, in order, with starts 0, 10, 25,
\* durations 10, 15, 0 and the file names "001 - Episode.mp3", "002 - Episode.mp3"
\* and "003 - Episode.mp3".
C14_EpisodeSplits ==
    EpisodeSplitsAre(<<<<"0", "0", "1", " ", "-", " ">> \o EpisodeTitle \o Mp3,
                       <<"0", "0", "2", " ", "-", " ">> \o EpisodeTitle \o Mp3,
                       <<"0", "0", "3", " ", "-", " ">> \o EpisodeTitle \o Mp3>>)

C14_Witness ==
    /\ pc = "done"
    /\ Len(calls) = 6
    /\ chapters = EpisodeChapters
    /\ calls[6].dur = 0
    /\ calls[6].out.name = <<"0", "0", "3", " ", "-", " ">> \o EpisodeTitle \o Mp3

\* C14, as claimed: the same, with the file names "001 - 001 Episode.mp3",
\* "002 - 002 Episode.mp3" and "003 - 003 Episode.mp3".
C14_EpisodeSplitsAsClaimed ==
    EpisodeSplitsAre(
        <<<<"0", "0", "1", " ", "-", " ", "0", "0", "1", " ">> \o EpisodeTitle \o Mp3,
          <<"0", "0", "2", " ", "-", " ", "0", "0", "2", " ">> \o EpisodeTitle \o Mp3,
          <<"0", "0", "3", " ", "-", " ", "0", "0", "3", " ">> \o EpisodeTitle \o Mp3>>)

(***************************************************************************)
(* safe_name on its own: a raw name and a fallback are drawn, safe_name is *)
(* applied to them, and then once more to its own result.                  *)
(***************************************************************************)
NameChars == {"a", " ", "/"}

ShortNames == UNION {[1..n -> NameChars] : n \in 0..MaxNameLen}

\* names longer than the truncation limit: NameLimit - 1 letters, then a short name
LongNames == {[k \in 1..(NameLimit - 1) |-> "a"] \o s : s \in ShortNames}

RawNames == ShortNames \cup LongNames

Fallbacks == {<<>>, <<" ">>, <<"0", "0", "1", " ", "/">>}

InitSafeName ==
    /\ snPc = "args"
    /\ snName \in RawNames
    /\ snFallback \in Fallbacks
    /\ snOnce = <<>>
    /\ snTwice = <<>>
    /\ options = [title |-> <<>>, out_path |-> "."]
    /\ pc = "start"
    /\ calls = <<>>
    /\ meta = {}
    /\ chapters = <<>>
    /\ i = 0
    /\ error = "none"
    /\ dirExists = TRUE
    /\ tempFile = "absent"
    /\ outFiles = {}
    /\ rpc = "idle"
    /\ childOp = [op |-> "none", s |-> "out", b |-> "a", rc |-> 0]
    /\ open = [s \in {"out", "err"} |-> FALSE]
    /\ written = [s \in {"out", "err"} |-> <<>>]
    /\ nWrites = 0
    /\ exitCode = 0
    /\ pipe = [s \in {"out", "err"} |-> <<>>]
    /\ pumpPc = [s \in {"out", "err"} |-> "idle"]
    /\ captured = [s \in {"out", "err"} |-> <<>>]
    /\ retval = [rc |-> 0, outputs |-> <<>>, errors |-> <<>>]

ApplySafeName ==
    /\ snPc = "args"
    /\ snOnce' = safe_name(snName, snFallback)
    /\ snPc' = "once"
    /\ UNCHANGED <<snName, snFallback, snTwice>>
    /\ UNCHANGED pipeVars
    /\ UNCHANGED runVars

ApplySafeNameAgain ==
    /\ snPc = "once"
    /\ snTwice' = safe_name(snOnce, snFallback)
    /\ snPc' = "twice"
    /\ UNCHANGED <<snName, snFallback, snOnce>>
    /\ UNCHANGED pipeVars
    /\ UNCHANGED runVars

NextSafeName == ApplySafeName \/ ApplySafeNameAgain

SpecSafeName == InitSafeName /\ [][NextSafeName]_vars

\* C15: safe_name applied to its own result, with the same fallback, gives that
\* result again.
C15_Idempotent == snPc = "twice" => snTwice = snOnce

\* C16: the result of safe_name has no reserved character, no whitespace other than
\* single spaces between two non-space characters, and at most NameLimit characters.
C16_ResultIsSanitized ==
    snPc \in {"once", "twice"} =>
        /\ Len(snOnce) <= NameLimit
        /\ \A k \in 1..Len(snOnce) : snOnce[k] \notin Reserved
        /\ \A k \in 1..Len(snOnce) :
              snOnce[k] \in Whitespace =>
                  /\ snOnce[k] = " "
                  /\ k > 1
                  /\ k < Len(snOnce)
                  /\ snOnce[k - 1] \notin Whitespace
                  /\ snOnce[k + 1] \notin Whitespace

\* what a call invokes: the program, its arguments and its output path
Invocation(c) ==
    [kind |-> c.kind, inp |-> c.inp, out |-> c.out, start |-> c.start,
     dur |-> c.dur, title |-> c.title]

MetaParsed == calls # <<>> /\ ~calls[1].alive /\ ~JsonFails(Join(calls[1].outputs))

ChaptersParsed ==
    /\ Len(calls) >= 3
    /\ ~calls[3].alive
    /\ ~JsonFails(Join(calls[3].outputs))
    /\ HasKey(JsonDecode(Join(calls[3].outputs)), "chapters")

ChaptersPrinted == Lookup(JsonDecode(Join(calls[3].outputs)), "chapters")

\* C17: once the metadata is parsed, the invocations that follow and the stage the
\* run ends in are a function of the options and of what the chapter probe printed;
\* the metadata is not among its arguments, so two runs that differ only in the
\* parsed metadata make the same invocations and end in the same stage.
C17_MetaNotInControlFlow ==
    /\ (pc = "failed" /\ Len(calls) = 1 => ~MetaParsed)
    /\ (Len(calls) >= 2 =>
            Invocation(calls[2]) = Invocation(convert_aax_ap3_call(InputPath, temp_name)))
    /\ (Len(calls) >= 3 => Invocation(calls[3]) = Invocation(get_chapters_call(temp_name)))
    /\ (Len(calls) >= 4 =>
            /\ ChaptersParsed
            /\ Len(calls) <= 3 + Len(ChaptersPrinted)
            /\ \A n \in 1..(Len(calls) - 3) :
                  /\ LoopBody(ChaptersPrinted, n, options).pc = "split"
                  /\ Invocation(calls[3 + n]) =
                         Invocation(LoopBody(ChaptersPrinted, n, options).launch[1]))
    /\ (pc = "done" => ChaptersParsed /\ Len(calls) = 3 + Len(ChaptersPrinted))
    /\ (pc = "failed" /\ Len(calls) >= 3 /\ ChaptersParsed =>
            /\ Len(calls) - 2 <= Len(ChaptersPrinted)
            /\ LoopBody(ChaptersPrinted, Len(calls) - 2, options).pc = "failed")

C17_Witness ==
    /\ pc = "done"
    /\ Len(calls) = 5
    /\ MetaParsed
    /\ HasKey(meta, "format")
    /\ JsonDecode(Join(calls[1].outputs)) = meta

\* the files a finished child has certainly written are on disk
WrittenFilesStay ==
    /\ \A k \in SplitCalls : ~calls[k].alive /\ calls[k].rc = 0 => calls[k].out \in outFiles
    /\ (Len(calls) >= 2 /\ ~calls[2].alive /\ calls[2].rc = 0 => tempFile = "data")

\* C18: the step in which the pipeline fails, and every step after it, leaves the
\* intermediate file and the chapter files as they were, and in a failed run the
\* files written by the finished splits and the transcode are on disk.
C18_NoRollback ==
    /\ [](pc = "failed" => WrittenFilesStay)
    /\ [][pc' = "failed" => tempFile' = tempFile /\ outFiles' = outFiles]_vars

C18_Witness ==
    /\ pc = "failed"
    /\ error = "ValueError"
    /\ Len(calls) = 4
    /\ calls[4].rc = 0
    /\ calls[4].out \in outFiles
    /\ tempFile = "data"

\* C19: whenever a tool has been invoked or a file written, the output directory
\* exists; and the first step of convert, whether the directory existed or not,
\* goes on to the metadata probe with the directory there and its contents as
\* they were.
C19_DirectoryFirst ==
    /\ [](calls # <<>> \/ tempFile # "absent" \/ (pc # "start" /\ outFiles # {}) => dirExists)
    /\ [][pc = "start" =>
             /\ pc' = "meta"
             /\ error' = "none"
             /\ dirExists'
             /\ outFiles' = outFiles
             /\ tempFile' = tempFile]_vars

C19_Witness ==
    /\ pc = "meta"
    /\ Len(calls) = 1
    /\ dirExists
    /\ options.out_path = "out"
    /\ OldFile("out") \in outFiles

\* the step that follows the await of a split
AfterSplit == pc = "split" /\ (pc' # pc \/ Len(calls') # Len(calls))

\* C20: whatever the exit code of the finished transcode, convert can go on to the
\* chapter probe and never fails there; whatever the exit code of a finished
\* split, the step after it launches the split of the next chapter when that
\* chapter's times are numbers, ends the run as done when no chapter is left, and
\* fails only on times that are not numbers; a run that is done has made one
\* split for every chapter.
C20_ExitCodeIgnored ==
    /\ [](/\ (pc = "transcode" /\ ~calls[2].alive => ENABLED TranscodeReturns)
          /\ (pc \in {"chapters", "split", "done"} => calls[3].kind = "probe_chapters")
          /\ (pc = "failed" => Len(calls) # 2)
          /\ (pc = "done" => Len(calls) = 3 + Len(chapters)))
    /\ [][AfterSplit =>
             IF i = Len(chapters) THEN pc' = "done" /\ calls' = calls
             ELSE IF AllNumeric(<<chapters[i + 1]>>)
             THEN /\ pc' = "split"
                  /\ Len(calls') = Len(calls) + 1
                  /\ calls'[Len(calls')].kind = "split"
                  /\ calls'[Len(calls')].alive
             ELSE pc' = "failed" /\ error' = "ValueError"]_vars

C20_Witness ==
    /\ pc = "done"
    /\ Len(calls) = 5
    /\ calls[2].kind = "transcode"
    /\ calls[2].rc = 1
    /\ calls[4].kind = "split"
    /\ calls[4].rc = 1
    /\ calls[5].kind = "split"

====
